---- MODULE Spec2Model ----
(***************************************************************************)
(* Model of the two-player Tetris server (src/server.js): the session      *)
(* registry (clients, clientToRoom), the room manager (gameRooms), the     *)
(* board engine and the garbage propagator.  One action per inbound event  *)
(* of the server: a connection, a close, and each message type.            *)
(*                                                                         *)
(* Conventions.  A WebSocket object is a positive integer handle; the k-th *)
(* accepted connection has handle k and a closed handle is never reused    *)
(* (JS object identity).  JS arrays are tuples; the operators At / Cell    *)
(* take the 0-based indices of the source.  `out` holds, in order, the     *)
(* frames sent while the most recent event was handled.                    *)
(***************************************************************************)
EXTENDS Integers, Sequences, FiniteSets, TLC

\* ---------------------------------------------------------------- bounds
\* Connections ever accepted.
MaxConns == 2
\* Size of the pool of codes generateGameCode draws from.
MaxCodes == 2
\* Game messages handled in a run of Spec (the lobby specification).
MaxGameMsgs == 1
\* Locks of the host / of the guest in a run of SpecMatch.
MaxHostLocks == 2
MaxGuestLocks == 0
\* The random draw is restricted to the first NumPieces names of DrawOrder.
NumPieces == 1
\* Board size (20 x 10 in src/server.js:37-38, scaled down).  Six rows are the
\* fewest with which addGarbageLines can add two rows (its limit is ROWS - 4).
ROWS == 6
COLS == 4
\* Game messages handled in a run of SpecLock.
MaxLockMsgs == 2
\* Garbage rows on the first player's board at the start of SpecLock.
MaxStack == 4
\* Game messages handled in a run of SpecMove.
MaxMoveMsgs == 3
MaxSockets == 4
MaxSimMsgs == 1
MaxSimLines == 6
\* SpecDown: game messages of any kind handled before the moveDown messages.
MaxSteer == 3
\* SpecDown: pieces the player has dropped where they spawned before that.
MaxDrops == 2
\* Largest number of rows the score table is compared on.
MaxCleared == 6
\* SpecPure places shapes from MaxShift columns left of the board and MaxShift
\* rows above it to one column and one row past it.
MaxShift == 3

\* ------------------------------------------------------------- constants
null == 0
Empty == "0"
GARBAGE == "#808080"

VARIABLES
  clients,        \* Map ws -> [id, state]
  nextClientId,   \* counter
  gameRooms,      \* Map code -> room
  clientToRoom,   \* Map ws -> code
  out,            \* frames sent while handling the latest event
  crashed,        \* an exception escaped an event listener: the process is gone
  gameMsgs,       \* bookkeeping: game messages handled so far
  locks,          \* bookkeeping: ws -> processLock runs so far
  args,           \* SpecPure: the arguments a function is applied to
  result          \* SpecPure: what the function returned

vars == <<clients, nextClientId, gameRooms, clientToRoom, out, crashed, gameMsgs, locks,
          args, result>>

\* ------------------------------------------------------------------ maps
MapSet(f, k, v) == [x \in (DOMAIN f) \cup {k} |-> IF x = k THEN v ELSE f[x]]
MapDelete(f, k) == [x \in (DOMAIN f) \ {k} |-> f[x]]
MapHas(f, k) == k \in DOMAIN f

Codes == 1..MaxCodes

\* ------------------------------------------------------------- the pieces
TETROMINOES ==
  [ I |-> [shape |-> << <<0,0,0,0>>, <<1,1,1,1>>, <<0,0,0,0>>, <<0,0,0,0>> >>, color |-> "#00FFFF"],
    O |-> [shape |-> << <<1,1>>, <<1,1>> >>, color |-> "#FFFF00"],
    T |-> [shape |-> << <<0,1,0>>, <<1,1,1>>, <<0,0,0>> >>, color |-> "#800080"],
    S |-> [shape |-> << <<0,1,1>>, <<1,1,0>>, <<0,0,0>> >>, color |-> "#00FF00"],
    Z |-> [shape |-> << <<1,1,0>>, <<0,1,1>>, <<0,0,0>> >>, color |-> "#FF0000"],
    J |-> [shape |-> << <<1,0,0>>, <<1,1,1>>, <<0,0,0>> >>, color |-> "#0000FF"],
    L |-> [shape |-> << <<0,0,1>>, <<1,1,1>>, <<0,0,0>> >>, color |-> "#FF7F00"] ]

\* The catalog's names; the draw takes a prefix of this list, which puts the
\* square first so that the smallest prefix already completes two rows at once.
DrawOrder == <<"O", "I", "T", "S", "Z", "J", "L">>

\* getRandomPiece: every piece the draw can return.
getRandomPiece ==
  { [shape |-> TETROMINOES[DrawOrder[i]].shape, color |-> TETROMINOES[DrawOrder[i]].color] :
      i \in 1..(IF NumPieces < 7 THEN NumPieces ELSE 7) }

\* --------------------------------------------------------------- boards
Cell(shape, row, col) == shape[row + 1][col + 1]
At(board, y, x) == board[y + 1][x + 1]
Div2(n) == n \div 2

createEmptyBoard == [r \in 1..ROWS |-> [c \in 1..COLS |-> Empty]]

SpawnX(piece) == Div2(COLS) - Div2(Len(piece.shape[1]))

createInitialState(clientId, piece) ==
  [ id |-> clientId,
    board |-> createEmptyBoard,
    currentPiece |-> piece,
    currentX |-> SpawnX(piece),
    currentY |-> 0,
    score |-> 0,
    linesCleared |-> 0,
    gameOver |-> FALSE ]

isValidMoveOffByOne(state, newX, newY, shape) ==
  \A y \in 0..(Len(shape) - 1) : \A x \in 0..(Len(shape[y + 1]) - 1) :
    Cell(shape, y, x) # 0 =>
      LET boardX == newX + x
          boardY == newY + y
      IN /\ ~(boardX < 0 \/ boardX > COLS \/ boardY >= ROWS)
         /\ ~(boardY >= 0 /\ boardX < COLS /\ At(state.board, boardY, boardX) # Empty)

isValidMove(state, newX, newY, shape) ==
  \A y \in 0..(Len(shape) - 1) : \A x \in 0..(Len(shape[y + 1]) - 1) :
    Cell(shape, y, x) # 0 =>
      LET boardX == newX + x
          boardY == newY + y
      IN /\ ~(boardX < 0 \/ boardX >= COLS \/ boardY >= ROWS)
         /\ ~(boardY >= 0 /\ At(state.board, boardY, boardX) # Empty)

\* --------------------------------------------------------------- frames
Frame(to, type, body) == [to |-> to, type |-> type, body |-> body]

\* The world a handler works on; `thrown` is set when an exception is in flight,
\* `down` holds the registered sockets on which ws.send throws.
World == [clients |-> clients, gameRooms |-> gameRooms, clientToRoom |-> clientToRoom,
          out |-> <<>>, thrown |-> FALSE, down |-> {}]

\* ws.send on a socket whose close event has not been handled.
Send(w, to, type, body) ==
  IF to \in w.down THEN [w EXCEPT !.thrown = TRUE]
  ELSE [w EXCEPT !.out = Append(@, Frame(to, type, body))]

\* ws.send on any socket: a closed socket either throws or drops the frame,
\* depending on the ws library in use (`throws`).
SendAny(w, to, type, body, throws) ==
  IF MapHas(w.clients, to) THEN Send(w, to, type, body)
  ELSE IF throws THEN [w EXCEPT !.thrown = TRUE]
  ELSE w

\* ws.send while the close event of `closing` is handled: that socket is closed
\* although its entry is still in clients.
SendOnClose(w, closing, to, type, body, throws) ==
  LET s == SendAny([w EXCEPT !.clients = MapDelete(@, closing)], to, type, body, throws)
  IN [s EXCEPT !.clients = w.clients]

sendGameState(w, ws) ==
  IF ~MapHas(w.clients, ws) THEN w
  ELSE Send(w, ws, "gameStateUpdate", [state |-> w.clients[ws].state])

\* ------------------------------------------------------------ the rooms
AnyCode(rooms) == Codes

\* The codes the do-while loop around generateGameCode can end with.
FreshCodes(rooms) == Codes \ DOMAIN rooms

handleCreateGame(w, ws, gameCode) ==
  LET clientData == w.clients[ws]
      room == [code |-> gameCode, host |-> ws, hostId |-> clientData.id,
               guest |-> null, guestId |-> null, status |-> "waiting"]
      w1 == [w EXCEPT !.gameRooms = MapSet(@, gameCode, room),
                      !.clientToRoom = MapSet(@, ws, gameCode)]
  IN Send(w1, ws, "gameCreated",
          [gameCode |-> gameCode, playerId |-> clientData.id, isHost |-> TRUE])

\* The join is refused (server.js:343).
JoinRefusedOnlyIfMissing(rooms, gameCode) == ~MapHas(rooms, gameCode)

JoinRefusedMissingOrEnded(rooms, gameCode) ==
  \/ ~MapHas(rooms, gameCode)
  \/ rooms[gameCode].status = "ended"

JoinRefused(rooms, gameCode) ==
  \/ ~MapHas(rooms, gameCode)
  \/ rooms[gameCode].status # "waiting"
  \/ rooms[gameCode].guest # null

AttachGuestKeepStatus(room, ws, guestId) ==
  [room EXCEPT !.guest = ws, !.guestId = guestId]

\* The guest attached to the room (server.js:355-357).
AttachGuest(room, ws, guestId) ==
  [room EXCEPT !.guest = ws, !.guestId = guestId, !.status = "playing"]

handleJoinGame(w, ws, gameCode, throws) ==
  LET guestClient == w.clients[ws] IN
  IF JoinRefused(w.gameRooms, gameCode)
  THEN Send(w, ws, "error",
            [message |-> IF MapHas(w.gameRooms, gameCode)
                         THEN "Game is already full or not in waiting state"
                         ELSE "Game not found"])
  ELSE LET room == w.gameRooms[gameCode] IN
      LET room1 == AttachGuest(room, ws, guestClient.id)
          w1 == [w EXCEPT !.gameRooms = MapSet(@, gameCode, room1),
                          !.clientToRoom = MapSet(@, ws, gameCode)]
          w2 == Send(w1, ws, "gameJoined",
                     [gameCode |-> gameCode, playerId |-> guestClient.id,
                      opponentId |-> room.hostId, isHost |-> FALSE])
          w3 == SendAny(w2, room1.host, "playerJoined",
                        [gameCode |-> gameCode, opponentId |-> guestClient.id], throws)
      IN IF w3.thrown THEN w3
         ELSE sendGameState(sendGameState(w3, room1.host), room1.guest)

\* Only the host can cancel the game if it's in waiting state (server.js:403).
MayCancelAnyStatus(room, ws) == room.host = ws

MayCancel(room, ws) == room.host = ws /\ room.status = "waiting"

handleCancelGame(w, ws) ==
  IF ~MapHas(w.clientToRoom, ws) THEN w
  ELSE LET gameCode == w.clientToRoom[ws] IN
    IF ~MapHas(w.gameRooms, gameCode)
    THEN [w EXCEPT !.clientToRoom = MapDelete(@, ws)]
    ELSE LET room == w.gameRooms[gameCode] IN
      IF ~MayCancel(room, ws) THEN w
      ELSE Send([w EXCEPT !.gameRooms = MapDelete(@, gameCode),
                          !.clientToRoom = MapDelete(@, ws)],
                ws, "gameCanceled", [gameCode |-> gameCode])

\* handleRoomDisconnection leaving the other participant's registry entry alone.
handleRoomDisconnectionKeepsOther(w, ws, throws) ==
  IF ~MapHas(w.clientToRoom, ws) THEN w
  ELSE LET gameCode == w.clientToRoom[ws] IN
    IF ~MapHas(w.gameRooms, gameCode)
    THEN [w EXCEPT !.clientToRoom = MapDelete(@, ws)]
    ELSE
      LET room == w.gameRooms[gameCode]
          w1 == IF room.host = ws /\ room.guest # null
                THEN SendOnClose(w, ws, room.guest, "opponentDisconnected",
                             [reason |-> "Host left the game"], throws)
                ELSE IF room.guest = ws /\ room.host # null
                THEN SendOnClose(w, ws, room.host, "opponentDisconnected",
                             [reason |-> "Guest left the game"], throws)
                ELSE w
      IN IF w1.thrown THEN w1
         ELSE [w1 EXCEPT !.gameRooms = MapDelete(@, gameCode),
                         !.clientToRoom = MapDelete(@, ws)]

handleRoomDisconnection(w, ws, throws) ==
  IF ~MapHas(w.clientToRoom, ws) THEN w
  ELSE LET gameCode == w.clientToRoom[ws] IN
    IF ~MapHas(w.gameRooms, gameCode)
    THEN [w EXCEPT !.clientToRoom = MapDelete(@, ws)]
    ELSE
      LET room == w.gameRooms[gameCode]
          w1 == IF room.host = ws /\ room.guest # null
                THEN LET s == SendOnClose(w, ws, room.guest, "opponentDisconnected",
                                      [reason |-> "Host left the game"], throws)
                     IN IF s.thrown THEN s
                        ELSE [s EXCEPT !.clientToRoom = MapDelete(@, room.guest)]
                ELSE IF room.guest = ws /\ room.host # null
                THEN LET s == SendOnClose(w, ws, room.host, "opponentDisconnected",
                                      [reason |-> "Guest left the game"], throws)
                     IN IF s.thrown THEN s
                        ELSE [s EXCEPT !.clientToRoom = MapDelete(@, room.host)]
                ELSE w
      IN IF w1.thrown THEN w1
         ELSE [w1 EXCEPT !.gameRooms = MapDelete(@, gameCode),
                         !.clientToRoom = MapDelete(@, ws)]

\* ws.on("close"): nothing catches an exception of handleRoomDisconnection.
\* The sockets of w.down have gone down too and their close events are still
\* to come; a send on them throws where the ws library in use throws.
OnClose(w, ws, throws) ==
  LET w1 == handleRoomDisconnection(w, ws, throws)
  IN IF w1.thrown THEN w1 ELSE [w1 EXCEPT !.clients = MapDelete(@, ws)]

\* -------------------------------------------------------- the board engine
rotatePieceTransposed(piece) ==
  LET rows == Len(piece.shape)
      cols == Len(piece.shape[1])
  IN [shape |-> [c \in 1..cols |-> [r \in 1..rows |-> Cell(piece.shape, r - 1, c - 1)]],
      color |-> piece.color]

rotatePiece(piece) ==
  LET rows == Len(piece.shape)
      cols == Len(piece.shape[1])
  IN [shape |-> [c \in 1..cols |-> [r \in 1..rows |-> Cell(piece.shape, rows - 1 - (r - 1), c - 1)]],
      color |-> piece.color]

isRowComplete(board, row) == \A x \in 0..(COLS - 1) : At(board, row, x) # Empty

\* One completed row taken out: the rows above move down, an empty row on top.
RemoveRow(board, row) ==
  [r \in 1..ROWS |-> IF r = 1 THEN [c \in 1..COLS |-> Empty]
                     ELSE IF r - 1 <= row THEN board[r - 1]
                     ELSE board[r]]

\* The loop going on to the row above after a removal.
RECURSIVE ClearFromNoRecheck(_, _, _)
ClearFromNoRecheck(board, row, n) ==
  IF row < 0 THEN [board |-> board, linesCleared |-> n]
  ELSE IF isRowComplete(board, row)
       THEN ClearFromNoRecheck(RemoveRow(board, row), row - 1, n + 1)
  ELSE ClearFromNoRecheck(board, row - 1, n)

\* The loop of checkForCompletedLines from `row` upwards, `n` rows removed so far.
RECURSIVE ClearFrom(_, _, _)
ClearFrom(board, row, n) ==
  IF row < 0 THEN [board |-> board, linesCleared |-> n]
  ELSE IF isRowComplete(board, row) THEN ClearFrom(RemoveRow(board, row), row, n + 1)
  ELSE ClearFrom(board, row - 1, n)

\* Only the lowest complete row removed.
checkForCompletedLinesOnce(board) ==
  IF \E row \in 0..(ROWS - 1) : isRowComplete(board, row)
  THEN LET row == CHOOSE r \in 0..(ROWS - 1) :
                    /\ isRowComplete(board, r)
                    /\ \A q \in (r + 1)..(ROWS - 1) : ~isRowComplete(board, q)
       IN [board |-> RemoveRow(board, row), linesCleared |-> 1]
  ELSE [board |-> board, linesCleared |-> 0]

checkForCompletedLines(board) == ClearFrom(board, ROWS - 1, 0)

scoreValuesLinear(clearedLines) == clearedLines * 100

scoreValues(clearedLines) ==
  CASE clearedLines = 1 -> 100
    [] clearedLines = 2 -> 300
    [] clearedLines = 3 -> 500
    [] clearedLines = 4 -> 800
    [] OTHER -> clearedLines * 100

Min(a, b) == IF a < b THEN a ELSE b

linesToAddUncapped(numLines) == numLines

linesToAdd(numLines) == Min(numLines, ROWS - 4)

ProbeUpToTop(state, newY) == 0

\* The probe loop of addGarbageLines: upwards from newY while the piece is invalid.
RECURSIVE ProbeUp(_, _)
ProbeUp(state, newY) ==
  IF newY > 0 /\ ~isValidMove(state, state.currentX, newY, state.currentPiece.shape)
  THEN ProbeUp(state, newY - 1)
  ELSE newY

addGarbageLinesNoRevalidation(state, numLines, gaps) ==
  LET k == linesToAdd(numLines) IN
  IF k <= 0 THEN state
  ELSE [state EXCEPT !.board =
          [r \in 1..ROWS |->
             IF r - 1 < ROWS - k THEN state.board[r + k]
             ELSE LET i == ROWS - 1 - (r - 1)
                  IN [c \in 1..COLS |-> IF c - 1 = gaps[i] THEN Empty ELSE GARBAGE]]]

\* addGarbageLines with garbage rows that have no gap.
addGarbageLinesNoGap(state, numLines, gaps) ==
  LET k == linesToAdd(numLines) IN
  IF k <= 0 THEN state
  ELSE
    LET board1 == [r \in 1..ROWS |->
                     IF r - 1 < ROWS - k THEN state.board[r + k]
                     ELSE [c \in 1..COLS |-> GARBAGE]]
        s1 == [state EXCEPT !.board = board1]
        shape == s1.currentPiece.shape
        newY == ProbeUp(s1, s1.currentY)
    IN IF isValidMove(s1, s1.currentX, s1.currentY, shape) THEN s1
       ELSE IF isValidMove(s1, s1.currentX, newY, shape) THEN [s1 EXCEPT !.currentY = newY]
       ELSE [s1 EXCEPT !.gameOver = TRUE]

\* addGarbageLines with the first gap column used for every row.
addGarbageLinesOneGap(state, numLines, gaps) ==
  LET k == linesToAdd(numLines) IN
  IF k <= 0 THEN state
  ELSE
    LET board1 == [r \in 1..ROWS |->
                     IF r - 1 < ROWS - k THEN state.board[r + k]
                     ELSE [c \in 1..COLS |-> IF c - 1 = gaps[0] THEN Empty ELSE GARBAGE]]
        s1 == [state EXCEPT !.board = board1]
        shape == s1.currentPiece.shape
        newY == ProbeUp(s1, s1.currentY)
    IN IF isValidMove(s1, s1.currentX, s1.currentY, shape) THEN s1
       ELSE IF isValidMove(s1, s1.currentX, newY, shape) THEN [s1 EXCEPT !.currentY = newY]
       ELSE [s1 EXCEPT !.gameOver = TRUE]

\* addGarbageLines; gaps[i] is the gap column drawn for the i-th garbage row.
addGarbageLines(state, numLines, gaps) ==
  LET k == linesToAdd(numLines) IN
  IF k <= 0 THEN state
  ELSE
    LET board1 == [r \in 1..ROWS |->
                     IF r - 1 < ROWS - k THEN state.board[r + k]
                     ELSE LET i == ROWS - 1 - (r - 1)
                          IN [c \in 1..COLS |-> IF c - 1 = gaps[i] THEN Empty ELSE GARBAGE]]
        s1 == [state EXCEPT !.board = board1]
        shape == s1.currentPiece.shape
        newY == ProbeUp(s1, s1.currentY)
    IN IF isValidMove(s1, s1.currentX, s1.currentY, shape) THEN s1
       ELSE IF isValidMove(s1, s1.currentX, newY, shape) THEN [s1 EXCEPT !.currentY = newY]
       ELSE [s1 EXCEPT !.gameOver = TRUE]

SetState(w, ws, state) == [w EXCEPT !.clients[ws].state = state]

\* Any other connection taken for the opponent.
OpponentOfAnyone(w, ws) ==
  IF DOMAIN w.clients \ {ws} = {} THEN null
  ELSE CHOOSE c \in DOMAIN w.clients \ {ws} : TRUE

\* The other participant of the playing room of ws, or null.
OpponentOf(w, ws) ==
  IF ~MapHas(w.clientToRoom, ws) THEN null
  ELSE LET gameCode == w.clientToRoom[ws] IN
    IF ~MapHas(w.gameRooms, gameCode) THEN null
    ELSE LET room == w.gameRooms[gameCode] IN
      IF room.status # "playing" THEN null
      ELSE IF room.host = ws THEN room.guest
      ELSE IF room.guest = ws THEN room.host
      ELSE null

\* The catch block of a try whose body ended in world s: the exception is logged.
Caught(s) == [s EXCEPT !.thrown = FALSE]

broadcastOpponentState(w, activeWs) ==
  LET opponentWs == OpponentOf(w, activeWs)
      activeClient == w.clients[activeWs]
  IN IF opponentWs = null THEN w
     ELSE Caught(SendAny(w, opponentWs, "opponentUpdate",
                  [playerId |-> activeClient.id, board |-> activeClient.state.board,
                   score |-> activeClient.state.score,
                   linesCleared |-> activeClient.state.linesCleared,
                   gameOver |-> activeClient.state.gameOver], FALSE))

\* sendGarbageToOpponents without its try and catch.
sendGarbageToOpponentsUncaught(w, senderWs, numLines, gaps) ==
  LET opponentWs == OpponentOf(w, senderWs) IN
  IF numLines <= 0 \/ opponentWs = null \/ ~MapHas(w.clients, opponentWs) THEN w
  ELSE
    LET w1 == Send(w, opponentWs, "addGarbage",
                   [lines |-> numLines, fromPlayer |-> w.clients[senderWs].id])
        w2 == SetState(w1, opponentWs,
                       addGarbageLines(w1.clients[opponentWs].state, numLines, gaps))
    IN IF w1.thrown THEN w1 ELSE sendGameState(w2, opponentWs)

sendGarbageToOpponents(w, senderWs, numLines, gaps) ==
  LET opponentWs == OpponentOf(w, senderWs) IN
  IF numLines <= 0 \/ opponentWs = null \/ ~MapHas(w.clients, opponentWs) THEN w
  ELSE
    LET w1 == Send(w, opponentWs, "addGarbage",
                   [lines |-> numLines, fromPlayer |-> w.clients[senderWs].id])
        w2 == SetState(w1, opponentWs,
                       addGarbageLines(w1.clients[opponentWs].state, numLines, gaps))
    IN IF w1.thrown THEN Caught(w1)
       ELSE LET w3 == sendGameState(w2, opponentWs)
            IN IF w3.thrown THEN Caught(w3) ELSE w3

\* The board with the piece's cells written into it.
WritePiece(state) ==
  LET shape == state.currentPiece.shape IN
  [r \in 1..ROWS |-> [c \in 1..COLS |->
     LET row == (r - 1) - state.currentY
         col == (c - 1) - state.currentX
     IN IF /\ row >= 0 /\ row < Len(shape)
           /\ col >= 0 /\ col < Len(shape[1])
           /\ Cell(shape, row, col) # 0
        THEN state.currentPiece.color
        ELSE state.board[r][c]]]

garbageLinesAll(clearedLines) == clearedLines

\* Calculate garbage lines (lines cleared - 1) (server.js:614).
garbageLines(clearedLines) == clearedLines - 1

\* processLock; piece is the piece drawn for the spawn.
\* processLock, lines 597-620: the score for the rows cleared and the garbage.
LockScored(w, ws, state, cl, gaps) ==
  IF cl.linesCleared > 0
  THEN LET w1 == SetState(w, ws, [state EXCEPT !.board = cl.board,
                                               !.linesCleared = @ + cl.linesCleared,
                                               !.score = @ + scoreValues(cl.linesCleared)])
       IN IF cl.linesCleared > 1
          THEN sendGarbageToOpponents(w1, ws, garbageLines(cl.linesCleared), gaps)
          ELSE w1
  ELSE SetState(w, ws, [state EXCEPT !.board = cl.board])

\* The next piece entering from the row above the board.
LockSpawnedAbove(state, piece) ==
  LET s2 == [state EXCEPT !.currentPiece = piece,
                          !.currentX = SpawnX(piece),
                          !.currentY = 0 - 1]
  IN IF ~isValidMove(s2, s2.currentX, s2.currentY, s2.currentPiece.shape)
     THEN [s2 EXCEPT !.gameOver = TRUE]
     ELSE s2

\* processLock, lines 622-630: the next piece and the game over condition.
LockSpawned(state, piece) ==
  LET s2 == [state EXCEPT !.currentPiece = piece,
                          !.currentX = SpawnX(piece),
                          !.currentY = 0]
  IN IF ~isValidMove(s2, s2.currentX, s2.currentY, s2.currentPiece.shape)
     THEN [s2 EXCEPT !.gameOver = TRUE]
     ELSE s2

\* processLock, lines 632-636: the two pushes.
LockPushed(w, ws) ==
  IF w.thrown THEN w ELSE broadcastOpponentState(w, ws)

\* processLock from line 622 on; an exception in flight skips it.
LockFinished(w, ws, piece) ==
  IF w.thrown THEN w
  ELSE LockPushed(sendGameState(SetState(w, ws, LockSpawned(w.clients[ws].state, piece)), ws), ws)

processLock(w, ws, piece, gaps) ==
  LockFinished(LockScored(w, ws, w.clients[ws].state,
                          checkForCompletedLines(WritePiece(w.clients[ws].state)), gaps),
               ws, piece)

processMove(w, ws, direction, piece, gaps) ==
  LET state == w.clients[ws].state
      newX == CASE direction = "left" -> state.currentX - 1
                [] direction = "right" -> state.currentX + 1
                [] OTHER -> state.currentX
      newY == IF direction = "down" THEN state.currentY + 1 ELSE state.currentY
      shape == state.currentPiece.shape
  IN IF isValidMove(state, newX, newY, shape)
     THEN sendGameState(SetState(w, ws, [state EXCEPT !.currentX = newX, !.currentY = newY]), ws)
     ELSE IF direction = "down" /\ ~isValidMove(state, newX, newY + 1, shape)
     THEN processLock(w, ws, piece, gaps)
     ELSE w

processRotateUnchecked(w, ws) ==
  LET state == w.clients[ws].state
  IN sendGameState(SetState(w, ws, [state EXCEPT !.currentPiece = rotatePiece(@)]), ws)

processRotate(w, ws) ==
  LET state == w.clients[ws].state
      rotatedPiece == rotatePiece(state.currentPiece)
  IN IF isValidMove(state, state.currentX, state.currentY, rotatedPiece.shape)
     THEN sendGameState(SetState(w, ws, [state EXCEPT !.currentPiece = rotatedPiece]), ws)
     ELSE w

\* The row the loop of processDropPiece stops at, starting from newY.
RECURSIVE DropY(_, _)
DropY(state, newY) ==
  IF isValidMove(state, state.currentX, newY + 1, state.currentPiece.shape)
  THEN DropY(state, newY + 1)
  ELSE newY

processDropPiece(w, ws, piece, gaps) ==
  LET state == w.clients[ws].state
      newY == DropY(state, state.currentY)
  IN IF newY > state.currentY
     THEN LET w1 == SetState(w, ws, [state EXCEPT !.currentY = newY])
          IN processLock(sendGameState(w1, ws), ws, piece, gaps)
     ELSE processLock(w, ws, piece, gaps)

processActionUnknownRotates(w, ws, action, piece, gaps) ==
  CASE action = "moveLeft" -> processMove(w, ws, "left", piece, gaps)
    [] action = "moveRight" -> processMove(w, ws, "right", piece, gaps)
    [] action = "moveDown" -> processMove(w, ws, "down", piece, gaps)
    [] action = "rotate" -> processRotate(w, ws)
    [] action = "dropPiece" -> processDropPiece(w, ws, piece, gaps)
    [] action = "lock" -> processLock(w, ws, piece, gaps)
    [] OTHER -> processRotate(w, ws)

processAction(w, ws, action, piece, gaps) ==
  CASE action = "moveLeft" -> processMove(w, ws, "left", piece, gaps)
    [] action = "moveRight" -> processMove(w, ws, "right", piece, gaps)
    [] action = "moveDown" -> processMove(w, ws, "down", piece, gaps)
    [] action = "rotate" -> processRotate(w, ws)
    [] action = "dropPiece" -> processDropPiece(w, ws, piece, gaps)
    [] action = "lock" -> processLock(w, ws, piece, gaps)
    [] OTHER -> w

\* Whether the action runs processLock in the state of ws.
WillLock(ws, action) ==
  LET state == clients[ws].state
      shape == state.currentPiece.shape
  IN \/ action \in {"dropPiece", "lock"}
     \/ /\ action = "moveDown"
        /\ ~isValidMove(state, state.currentX, state.currentY + 1, shape)
        /\ ~isValidMove(state, state.currentX, state.currentY + 2, shape)

\* The rows the lock of ws would hand to addGarbageLines (0: no garbage is added).
GarbageRows(ws, action) ==
  IF ~WillLock(ws, action) THEN 0
  ELSE LET state == clients[ws].state
           s == IF action = "dropPiece"
                THEN [state EXCEPT !.currentY = DropY(state, state.currentY)]
                ELSE state
           n == checkForCompletedLines(WritePiece(s)).linesCleared
       IN IF n > 1 THEN linesToAdd(garbageLines(n)) ELSE 0

GapDraws(k) == [0..(k - 1) -> 0..(COLS - 1)]


\* ------------------------------------------------------------- actions

\* The program's variables after a handler that ended in world w; an exception
\* that reaches the message listener is caught there.
Commit(w) ==
  /\ clients' = w.clients
  /\ gameRooms' = w.gameRooms
  /\ clientToRoom' = w.clientToRoom
  /\ out' = w.out

Open(ws) == ~crashed /\ MapHas(clients, ws)

Connect ==
  /\ ~crashed
  /\ nextClientId <= MaxConns
  /\ \E piece \in getRandomPiece :
       LET clientId == nextClientId
           ws == nextClientId
       IN /\ clients' = MapSet(clients, ws,
                               [id |-> clientId, state |-> createInitialState(clientId, piece)])
          /\ out' = <<Frame(ws, "welcome", [id |-> clientId])>>
          /\ locks' = MapSet(locks, ws, 0)
  /\ nextClientId' = nextClientId + 1
  /\ UNCHANGED <<gameRooms, clientToRoom, crashed, gameMsgs, args, result>>

Close(ws) ==
  /\ Open(ws)
  /\ \E throws \in BOOLEAN :
     \E down \in (IF throws THEN {{}, DOMAIN clients \ {ws}} ELSE {{}}) :
       LET w == OnClose([World EXCEPT !.down = down], ws, throws)
       IN /\ Commit(w)
          /\ crashed' = w.thrown
  /\ UNCHANGED <<nextClientId, gameMsgs, locks, args, result>>

CreateGame(ws) ==
  /\ Open(ws)
  /\ \E gameCode \in FreshCodes(gameRooms) :
       Commit(handleCreateGame(World, ws, gameCode))
  /\ UNCHANGED <<nextClientId, crashed, gameMsgs, locks, args, result>>

JoinGame(ws, gameCode) ==
  /\ Open(ws)
  /\ \E throws \in BOOLEAN : Commit(handleJoinGame(World, ws, gameCode, throws))
  /\ UNCHANGED <<nextClientId, crashed, gameMsgs, locks, args, result>>

CancelGame(ws) ==
  /\ Open(ws)
  /\ Commit(handleCancelGame(World, ws))
  /\ UNCHANGED <<nextClientId, crashed, gameMsgs, locks, args, result>>

\* A game message of ws, with the random draws the handler may make.
Game(ws, action) ==
  \E piece \in (IF WillLock(ws, action) THEN getRandomPiece ELSE {null}) :
    \E gaps \in GapDraws(GarbageRows(ws, action)) :
      \E w \in {processAction(World, ws, action, piece, gaps)} : Commit(w)

\* A game message of ws handled while ws.send throws on the sockets of `down`.
GameDown(ws, action, down) ==
  \E piece \in (IF WillLock(ws, action) THEN getRandomPiece ELSE {null}) :
    \E gaps \in GapDraws(GarbageRows(ws, action)) :
      \E w \in {processAction([World EXCEPT !.down = down], ws, action, piece, gaps)} :
        Commit(w)

\* A game message handled under the lobby specification's budget.
GameMsgs == {"moveLeft", "moveRight", "moveDown", "rotate", "dropPiece", "lock"}

LobbyGame(ws, action) ==
  /\ Open(ws)
  /\ gameMsgs < MaxGameMsgs
  /\ Game(ws, action)
  /\ gameMsgs' = gameMsgs + 1
  /\ UNCHANGED <<nextClientId, crashed, locks, args, result>>

\* case "requestGameStart"
RequestGameStart(ws) ==
  /\ Open(ws)
  /\ Commit(sendGameState(World, ws))
  /\ UNCHANGED <<nextClientId, crashed, gameMsgs, locks, args, result>>

\* Inbound frames that are not a message of the protocol: text that JSON.parse
\* rejects, the JSON text null (reading data.type throws), a value without a
\* type, an unknown type, and the legacy playerAction with no action or with
\* an unknown one.
BadFrames ==
  { [parses |-> FALSE, isNull |-> FALSE, type |-> "", action |-> ""],
    [parses |-> TRUE, isNull |-> TRUE, type |-> "", action |-> ""],
    [parses |-> TRUE, isNull |-> FALSE, type |-> "", action |-> ""],
    [parses |-> TRUE, isNull |-> FALSE, type |-> "chat", action |-> ""],
    [parses |-> TRUE, isNull |-> FALSE, type |-> "playerAction", action |-> ""],
    [parses |-> TRUE, isNull |-> FALSE, type |-> "playerAction", action |-> "jump"] }

\* ws.on("message") for the frames of BadFrames: the try block, the legacy
\* playerAction case, the default case and the catch.
onMessage(w, ws, data) ==
  IF ~data.parses \/ data.isNull THEN w
  ELSE CASE data.type = "playerAction" ->
              IF data.action # "" /\ MapHas(w.clients, ws)
              THEN processAction(w, ws, data.action, null, <<>>)
              ELSE w
         [] OTHER -> w

\* A frame that does not parse, or of an unknown type.
Ignored(ws) ==
  /\ Open(ws)
  /\ \E data \in BadFrames : Commit(onMessage(World, ws, data))
  /\ UNCHANGED <<nextClientId, crashed, gameMsgs, locks, args, result>>

Init ==
  /\ clients = <<>>
  /\ nextClientId = 1
  /\ gameRooms = <<>>
  /\ clientToRoom = <<>>
  /\ out = <<>>
  /\ crashed = FALSE
  /\ gameMsgs = 0
  /\ locks = <<>>
  /\ args = <<>>
  /\ result = <<>>

Handles == 1..MaxConns

Next ==
  \/ Connect
  \/ \E ws \in Handles : Close(ws)
  \/ \E ws \in Handles : CreateGame(ws)
  \/ \E ws \in Handles : \E gameCode \in Codes : JoinGame(ws, gameCode)
  \/ \E ws \in Handles : CancelGame(ws)
  \/ \E ws \in Handles : \E action \in GameMsgs : LobbyGame(ws, action)
  \/ \E ws \in Handles : RequestGameStart(ws)
  \/ \E ws \in Handles : Ignored(ws)

Spec == Init /\ [][Next]_vars

\* ------------------------------------------------------- the match
\* A match in progress: connections 1 and 2 accepted, 1 has created room 1 and
\* either 2 has joined it (host 1, guest 2) or 1 has joined its own room.
MatchRoom(guest) ==
  [code |-> 1, host |-> 1, hostId |-> 1, guest |-> guest, guestId |-> guest, status |-> "playing"]

InitMatch ==
  /\ \E p1 \in getRandomPiece : \E p2 \in getRandomPiece :
       clients = (1 :> [id |-> 1, state |-> createInitialState(1, p1)]) @@
                 (2 :> [id |-> 2, state |-> createInitialState(2, p2)])
  /\ nextClientId = 3
  /\ \E guest \in {1, 2} :
       /\ gameRooms = (1 :> MatchRoom(guest))
       /\ clientToRoom = [ws \in {1, guest} |-> 1]
  /\ out = <<>>
  /\ crashed = FALSE
  /\ gameMsgs = 0
  /\ locks = (1 :> 0) @@ (2 :> 0)
  /\ args = <<>>
  /\ result = <<>>

LockBudget(ws) == IF ws = 1 THEN MaxHostLocks ELSE MaxGuestLocks

MatchGame(ws, action) ==
  /\ Open(ws)
  /\ WillLock(ws, action) => locks[ws] < LockBudget(ws)
  /\ Game(ws, action)
  /\ locks' = IF WillLock(ws, action) THEN [locks EXCEPT ![ws] = @ + 1] ELSE locks
  /\ UNCHANGED <<nextClientId, crashed, gameMsgs, args, result>>

MoveLeft(ws) == MatchGame(ws, "moveLeft")
MoveRight(ws) == MatchGame(ws, "moveRight")
MoveDown(ws) == MatchGame(ws, "moveDown")
Rotate(ws) == MatchGame(ws, "rotate")
DropPiece(ws) == MatchGame(ws, "dropPiece")
Lock(ws) == MatchGame(ws, "lock")

NextMatch ==
  \/ \E ws \in {1, 2} : MoveLeft(ws)
  \/ \E ws \in {1, 2} : MoveRight(ws)
  \/ \E ws \in {1, 2} : MoveDown(ws)
  \/ \E ws \in {1, 2} : Rotate(ws)
  \/ \E ws \in {1, 2} : DropPiece(ws)
  \/ \E ws \in {1, 2} : Lock(ws)

SpecMatch == InitMatch /\ [][NextMatch]_vars

\* ------------------------------------------------- locks and relays
\* Three connections in every arrangement of rooms the lobby can leave them in.
\* Connection 1 was sent garbage by a fourth connection that has left since:
\* its board holds `k` garbage rows with the gap in column 2, and its piece is
\* the I piece, still where it spawned.
GarbageStack(k, gap) ==
  [r \in 1..ROWS |-> [c \in 1..COLS |->
     IF r > ROWS - k /\ c - 1 # gap THEN GARBAGE ELSE Empty]]

RoomOf(code, host, guest) ==
  [code |-> code, host |-> host, hostId |-> host, guest |-> guest, guestId |-> guest,
   status |-> IF guest = null THEN "waiting" ELSE "playing"]

\* [rooms, registry] after the creates and joins named on the right.
LockRooms ==
  { [rooms |-> <<>>, registry |-> <<>>],                                  \* none
    [rooms |-> (1 :> RoomOf(1, 1, null)), registry |-> (1 :> 1)],         \* 1 creates
    [rooms |-> (1 :> RoomOf(1, 1, 2)), registry |-> (1 :> 1) @@ (2 :> 1)],  \* 2 joins 1
    [rooms |-> (1 :> RoomOf(1, 2, 1)), registry |-> (1 :> 1) @@ (2 :> 1)],  \* 1 joins 2
    [rooms |-> (1 :> RoomOf(1, 2, 3)), registry |-> (2 :> 1) @@ (3 :> 1)],  \* 3 joins 2
    [rooms |-> (1 :> RoomOf(1, 2, 3)) @@ (2 :> RoomOf(2, 1, null)),
     registry |-> (1 :> 2) @@ (2 :> 1) @@ (3 :> 1)],                      \* and 1 creates
    [rooms |-> (1 :> RoomOf(1, 1, 1)), registry |-> (1 :> 1)],            \* 1 joins itself
    [rooms |-> (1 :> RoomOf(1, 1, 2)) @@ (2 :> RoomOf(2, 1, null)),
     registry |-> (1 :> 2) @@ (2 :> 1)] }                                 \* 2 joins 1, 1 creates

InitLock ==
  /\ \E k \in 0..Min(MaxStack, ROWS - 2) : \E p2 \in getRandomPiece : \E p3 \in getRandomPiece :
       clients =
         (1 :> [id |-> 1,
                state |-> [createInitialState(1, TETROMINOES.I) EXCEPT
                             !.board = GarbageStack(k, 2)]]) @@
         (2 :> [id |-> 2, state |-> createInitialState(2, p2)]) @@
         (3 :> [id |-> 3, state |-> createInitialState(3, p3)])
  /\ nextClientId = 5
  /\ \E r \in LockRooms : gameRooms = r.rooms /\ clientToRoom = r.registry
  /\ out = <<>>
  /\ crashed = FALSE
  /\ gameMsgs = 0
  /\ locks = (1 :> 0) @@ (2 :> 0) @@ (3 :> 0)
  /\ args = <<>>
  /\ result = <<>>

LockGame(ws, action) ==
  /\ Open(ws)
  /\ gameMsgs < MaxLockMsgs
  /\ Game(ws, action)
  /\ gameMsgs' = gameMsgs + 1
  /\ UNCHANGED <<nextClientId, crashed, locks, args, result>>

\* A locking message of ws handled when the socket of its opponent, another
\* connection, has gone down and its close event is still to come.
LockGamePeerDown(ws, action) ==
  /\ Open(ws)
  /\ gameMsgs < MaxLockMsgs
  /\ WillLock(ws, action)
  /\ OpponentOf(World, ws) \notin {null, ws}
  /\ GameDown(ws, action, {OpponentOf(World, ws)})
  /\ gameMsgs' = gameMsgs + 1
  /\ UNCHANGED <<nextClientId, crashed, locks, args, result>>

NextLock ==
  \/ \E ws \in 1..3 : \E action \in GameMsgs : LockGame(ws, action)
  \/ \E ws \in 1..3 : \E action \in GameMsgs : LockGamePeerDown(ws, action)

SpecLock == InitLock /\ [][NextLock]_vars

\* ------------------------------------------------------ one player's moves
\* Connection 1 hosts a playing room with connection 2 as guest.  A third
\* connection that has left since sent connection 1 garbage: its board holds `k`
\* garbage rows with the gap in one column, and its piece, any of the catalog,
\* is where it spawned.  Connection 1 sends game messages.
InitMove ==
  /\ \E k \in 0..Min(MaxStack, ROWS - 2) : \E gap \in 0..(COLS - 1) :
     \E p1 \in {[shape |-> q.shape, color |-> q.color] : q \in
                  {TETROMINOES[DrawOrder[i]] : i \in 1..7}} :
     \E p2 \in getRandomPiece :
       clients =
         (1 :> [id |-> 1,
                state |-> [createInitialState(1, p1) EXCEPT !.board = GarbageStack(k, gap)]]) @@
         (2 :> [id |-> 2, state |-> createInitialState(2, p2)])
  /\ nextClientId = 4
  /\ gameRooms = (1 :> RoomOf(1, 1, 2))
  /\ clientToRoom = (1 :> 1) @@ (2 :> 1)
  /\ out = <<>>
  /\ crashed = FALSE
  /\ gameMsgs = 0
  /\ locks = (1 :> 0) @@ (2 :> 0)
  /\ args = <<>>
  /\ result = <<>>

MoveGame(ws, action) ==
  /\ Open(ws)
  /\ gameMsgs < MaxMoveMsgs
  /\ Game(ws, action)
  /\ gameMsgs' = gameMsgs + 1
  /\ UNCHANGED <<nextClientId, crashed, locks, args, result>>

NextMove == \E action \in GameMsgs : MoveGame(1, action)

SpecMove == InitMove /\ [][NextMove]_vars

\* ------------------------------------------------- the pure functions
\* isValidMove and rotatePiece applied to arguments drawn at the start.
CatalogPieces == {TETROMINOES[DrawOrder[i]] : i \in 1..7}

\* A 1 x 3 and a 3 x 2 shape, beside the catalog's square matrices.
OblongPieces ==
  { [shape |-> << <<1, 1, 1>> >>, color |-> "#FFFFFF"],
    [shape |-> << <<1, 0>>, <<1, 1>>, <<0, 1>> >>, color |-> "#FFFFFF"] }

\* A piece and what the rotate message can turn it into.
Rotations(piece) ==
  { piece, rotatePiece(piece), rotatePiece(rotatePiece(piece)),
    rotatePiece(rotatePiece(rotatePiece(piece))) }

ProbeShapes == UNION {{q.shape : q \in Rotations(p)} : p \in CatalogPieces}

\* The empty board, the boards with one occupied cell, and the full board.
ProbeBoards ==
  {createEmptyBoard} \cup
  {[r \in 1..ROWS |-> [c \in 1..COLS |-> GARBAGE]]} \cup
  {[r \in 1..ROWS |-> [c \in 1..COLS |-> IF r = r0 /\ c = c0 THEN GARBAGE ELSE Empty]] :
     r0 \in 1..ROWS, c0 \in 1..COLS}

\* The row of kind 1..4 at index r: empty, without an empty cell, one cell in
\* the column that tells the row's index, and all but that cell.
LineRow(r, kind) ==
  [c \in 1..COLS |->
     CASE kind = 1 -> Empty
       [] kind = 2 -> GARBAGE
       [] kind = 3 -> IF c = ((r - 1) % COLS) + 1 THEN GARBAGE ELSE Empty
       [] OTHER -> IF c = ((r - 1) % COLS) + 1 THEN Empty ELSE GARBAGE]

LineBoards == {[r \in 1..ROWS |-> LineRow(r, kinds[r])] : kinds \in [1..ROWS -> 1..4]}

InitPure ==
  /\ clients = <<>>
  /\ nextClientId = 1
  /\ gameRooms = <<>>
  /\ clientToRoom = <<>>
  /\ out = <<>>
  /\ crashed = FALSE
  /\ gameMsgs = 0
  /\ locks = <<>>
  /\ result = <<>>
  /\ \/ \E board \in ProbeBoards : \E shape \in ProbeShapes :
        \E x \in (0 - MaxShift)..COLS : \E y \in (0 - MaxShift)..ROWS :
          args = [fn |-> "isValidMove", state |-> [board |-> board],
                  newX |-> x, newY |-> y, shape |-> shape, times |-> 0]
     \/ \E piece \in CatalogPieces \cup OblongPieces :
          args = [fn |-> "rotatePiece", first |-> piece, piece |-> piece, times |-> 0]
     \/ \E board \in LineBoards :
          args = [fn |-> "checkForCompletedLines", first |-> board, board |-> board,
                  times |-> 0]

ApplyIsValidMove ==
  /\ args.fn = "isValidMove"
  /\ args.times = 0
  /\ result' = [value |-> isValidMove(args.state, args.newX, args.newY, args.shape)]
  /\ args' = [args EXCEPT !.times = 1]
  /\ UNCHANGED <<clients, nextClientId, gameRooms, clientToRoom, out, crashed, gameMsgs, locks>>

\* rotatePiece applied to the piece, then to what it returned, four times in all.
ApplyRotatePiece ==
  /\ args.fn = "rotatePiece"
  /\ args.times < 4
  /\ LET piece == IF args.times = 0 THEN args.first ELSE result.value
     IN /\ result' = [value |-> rotatePiece(piece)]
        /\ args' = [args EXCEPT !.piece = piece, !.times = @ + 1]
  /\ UNCHANGED <<clients, nextClientId, gameRooms, clientToRoom, out, crashed, gameMsgs, locks>>

\* checkForCompletedLines applied to the board, then to the board it left.
ApplyCheckForCompletedLines ==
  /\ args.fn = "checkForCompletedLines"
  /\ args.times < 2
  /\ LET board == IF args.times = 0 THEN args.first ELSE result.board
     IN /\ result' = checkForCompletedLines(board)
        /\ args' = [args EXCEPT !.board = board, !.times = @ + 1]
  /\ UNCHANGED <<clients, nextClientId, gameRooms, clientToRoom, out, crashed, gameMsgs, locks>>

NextPure == ApplyIsValidMove \/ ApplyRotatePiece \/ ApplyCheckForCompletedLines

SpecPure == InitPure /\ [][NextPure]_vars

\* ------------------------------------------------------- garbage insertion
\* addGarbageLines applied to a player's state, a number of lines and the gap
\* columns it draws.  The boards are those of ProbeBoards and the garbage
\* stacks; the piece is a catalog piece or the upright I, at a place where it
\* fits or where it spawned.
GarbageBoards ==
  ProbeBoards \cup {GarbageStack(j, gap) : j \in 1..(ROWS - 1), gap \in 0..(COLS - 1)}

GarbagePieces == CatalogPieces \cup {rotatePiece(TETROMINOES.I)}

InitGarbage ==
  /\ clients = <<>>
  /\ nextClientId = 1
  /\ gameRooms = <<>>
  /\ clientToRoom = <<>>
  /\ out = <<>>
  /\ crashed = FALSE
  /\ gameMsgs = 0
  /\ locks = <<>>
  /\ result = <<>>
  /\ \E board \in GarbageBoards : \E piece \in GarbagePieces :
     \E x \in (0 - MaxShift)..COLS : \E y \in 0..ROWS :
     \E numLines \in (0 - 1)..(ROWS - 3) :
       LET state == [createInitialState(1, piece) EXCEPT
                       !.board = board, !.currentX = x, !.currentY = y,
                       !.gameOver = ~isValidMove([board |-> board], x, y, piece.shape)]
       IN /\ ~state.gameOver \/ (x = SpawnX(piece) /\ y = 0)
          /\ \E gaps \in GapDraws(linesToAdd(numLines)) :
               args = [fn |-> "addGarbageLines", state |-> state, numLines |-> numLines,
                       gaps |-> gaps, times |-> 0]

ApplyAddGarbageLines ==
  /\ args.fn = "addGarbageLines"
  /\ args.times = 0
  /\ result' = [value |-> addGarbageLines(args.state, args.numLines, args.gaps)]
  /\ args' = [args EXCEPT !.times = 1]
  /\ UNCHANGED <<clients, nextClientId, gameRooms, clientToRoom, out, crashed, gameMsgs, locks>>

NextGarbage == ApplyAddGarbageLines

SpecGarbage == InitGarbage /\ [][NextGarbage]_vars

\* ------------------------------------------------ glitch-server.js
\* The connection and close listeners of glitch-server.js.  A socket is a
\* handle of 1..MaxSockets; the id comes from initClientState.
initClientState(w, piece) == createInitialState(Cardinality(DOMAIN w.clients) + 1, piece)

\* sendToClient: sends when the socket is open.
sendToClient(w, ws, type, body) ==
  IF MapHas(w.clients, ws) /\ ws \notin w.down THEN Send(w, ws, type, body) ELSE w

GlitchOnConnection(w, ws, piece) ==
  LET clientState == initClientState(w, piece)
      w1 == [w EXCEPT !.clients = MapSet(@, ws, [id |-> clientState.id, state |-> clientState])]
      w2 == sendToClient(w1, ws, "welcome", [id |-> clientState.id])
  IN sendToClient(w2, ws, "gameStateUpdate", [state |-> w2.clients[ws].state])

GlitchOnClose(w, ws) ==
  LET closing == [w EXCEPT !.down = @ \cup {ws}]
      w1 == IF ~MapHas(w.clientToRoom, ws) THEN closing
            ELSE LET gameCode == w.clientToRoom[ws]
                     w2 == IF ~MapHas(w.gameRooms, gameCode) THEN closing
                           ELSE LET room == w.gameRooms[gameCode]
                                    w3 == IF room.host = ws /\ room.guest # null
                                          THEN sendToClient(closing, room.guest, "opponentDisconnected",
                                                            [reason |-> "Host disconnected"])
                                          ELSE IF room.guest = ws /\ room.host # null
                                          THEN sendToClient(closing, room.host, "opponentDisconnected",
                                                            [reason |-> "Guest disconnected"])
                                          ELSE closing
                                IN [w3 EXCEPT !.gameRooms = MapDelete(@, gameCode)]
                 IN [w2 EXCEPT !.clientToRoom = MapDelete(@, ws)]
  IN [w1 EXCEPT !.clients = MapDelete(@, ws)]

GlitchConnect ==
  \E ws \in (1..MaxSockets) \ DOMAIN clients : \E piece \in getRandomPiece :
    /\ Commit(GlitchOnConnection(World, ws, piece))
    /\ UNCHANGED <<nextClientId, crashed, gameMsgs, locks, args, result>>

GlitchClose(ws) ==
  /\ MapHas(clients, ws)
  /\ Commit(GlitchOnClose(World, ws))
  /\ UNCHANGED <<nextClientId, crashed, gameMsgs, locks, args, result>>

NextGlitch ==
  \/ GlitchConnect
  \/ \E ws \in 1..MaxSockets : GlitchClose(ws)

SpecGlitch == Init /\ [][NextGlitch]_vars

\* ------------------------------------- the room-less variant (part_002)
\* src/unnamed/part_002 has no rooms: garbage goes to every other client whose
\* game is not over.  Its addGarbageLines and isValidMove are those of
\* server.js line for line.
simulatedGarbageUncapped(numLines) == numLines - 1

\* Math.min(numLines - 1, 4)
simulatedGarbage(numLines) == Min(numLines - 1, 4)

\* The body of clients.forEach in sendGarbageToOpponents for client ws.
RoomlessGarbageTo(w, senderWs, ws, numLines, gaps) ==
  IF ws = senderWs \/ w.clients[ws].state.gameOver THEN w
  ELSE
    LET w1 == Send(w, ws, "addGarbage",
                   [lines |-> numLines, fromPlayer |-> w.clients[senderWs].id])
        w2 == SetState(w1, ws, addGarbageLines(w1.clients[ws].state, numLines, gaps[ws]))
    IN IF w1.thrown THEN Caught(w1)
       ELSE LET w3 == sendGameState(w2, ws)
            IN IF w3.thrown THEN Caught(w3) ELSE w3

\* clients.forEach from handle ws on, in the order of insertion.
RECURSIVE RoomlessForEach(_, _, _, _, _)
RoomlessForEach(w, senderWs, ws, numLines, gaps) ==
  IF ws >= nextClientId THEN w
  ELSE RoomlessForEach(IF MapHas(w.clients, ws)
                       THEN RoomlessGarbageTo(w, senderWs, ws, numLines, gaps)
                       ELSE w,
                       senderWs, ws + 1, numLines, gaps)

roomlessSendGarbageToOpponents(w, senderWs, numLines, gaps) ==
  IF ~MapHas(w.clients, senderWs) \/ numLines <= 0 THEN w
  ELSE RoomlessForEach(w, senderWs, 1, numLines, gaps)

\* processAction of part_002 for the action simulateClearLines.
simulateClearLines(w, ws, lines, gaps) ==
  IF ~MapHas(w.clients, ws) THEN w
  ELSE IF lines > 1
       THEN roomlessSendGarbageToOpponents(w, ws, simulatedGarbage(lines), gaps)
       ELSE w

\* Three connections.  Each has received garbage before, none, 4 rows or
\* ROWS rows of it with the gap in column 0, which ended its game.
InitRoomless ==
  /\ \E k \in [1..3 -> {0, 4, ROWS}] : \E piece \in getRandomPiece :
       clients = [ws \in 1..3 |->
                    [id |-> ws,
                     state |-> [createInitialState(ws, piece) EXCEPT
                                  !.board = GarbageStack(k[ws], 0),
                                  !.gameOver = (k[ws] = ROWS)]]]
  /\ nextClientId = 4
  /\ gameRooms = <<>>
  /\ clientToRoom = <<>>
  /\ out = <<>>
  /\ crashed = FALSE
  /\ gameMsgs = 0
  /\ locks = <<>>
  /\ args = <<>>
  /\ result = <<>>

\* {type: "playerAction", action: "simulateClearLines", lines: lines}
SimulateClearLines(ws, lines) ==
  /\ Open(ws)
  /\ gameMsgs < MaxSimMsgs
  /\ LET k == IF lines > 1 THEN linesToAdd(simulatedGarbage(lines)) ELSE 0
     IN \E gaps \in [DOMAIN clients \ {ws} -> GapDraws(k)] :
          Commit(simulateClearLines(World, ws, lines, gaps))
  /\ gameMsgs' = gameMsgs + 1
  /\ args' = [type |-> "playerAction", action |-> "simulateClearLines",
              lines |-> lines, from |-> ws]
  /\ UNCHANGED <<nextClientId, crashed, locks, result>>

NextRoomless == \E ws \in 1..3 : \E lines \in 0..MaxSimLines : SimulateClearLines(ws, lines)

SpecRoomless == InitRoomless /\ [][NextRoomless]_vars

\* ------------------------------------------------- a player moving down
\* One connection in no room, so that no garbage reaches it.  It has dropped
\* up to MaxDrops pieces where they spawned, sends up to MaxSteer game messages
\* of any kind and from then on moveDown and nothing else, for as long as its
\* game is not over and no piece has locked since.  args.seq is the parity of
\* the number of moveDown messages handled.
DownPieces == getRandomPiece \cup {[shape |-> TETROMINOES.L.shape, color |-> TETROMINOES.L.color]}

\* The world after connection 1 was accepted and sent n dropPiece messages,
\* every draw of getRandomPiece returning `piece`.
RECURSIVE AfterDrops(_, _)
AfterDrops(n, piece) ==
  IF n = 0
  THEN [clients |-> (1 :> [id |-> 1, state |-> createInitialState(1, piece)]),
        gameRooms |-> <<>>, clientToRoom |-> <<>>, out |-> <<>>,
        thrown |-> FALSE, down |-> {}]
  ELSE processDropPiece([AfterDrops(n - 1, piece) EXCEPT !.out = <<>>], 1, piece, <<>>)

InitDown ==
  /\ \E n \in 0..MaxDrops : \E piece \in DownPieces :
       clients = AfterDrops(n, piece).clients
  /\ nextClientId = 2
  /\ gameRooms = <<>>
  /\ clientToRoom = <<>>
  /\ out = <<>>
  /\ crashed = FALSE
  /\ gameMsgs = 0
  /\ locks = (1 :> 0)
  /\ args = [only |-> "", seq |-> 0]
  /\ result = <<>>

\* A game message handled before the player turns to moveDown alone.
Steer(action) ==
  /\ Open(1)
  /\ args.only = ""
  /\ gameMsgs < MaxSteer
  /\ \E piece \in (IF WillLock(1, action) THEN DownPieces ELSE {null}) :
       \E w \in {processAction(World, 1, action, piece, <<>>)} : Commit(w)
  /\ gameMsgs' = gameMsgs + 1
  /\ UNCHANGED <<nextClientId, crashed, locks, args, result>>

\* The player that sends nothing else sends one more moveDown.
DownSent ==
  /\ Open(1)
  /\ ~clients[1].state.gameOver
  /\ locks[1] = 0
  /\ args' = [only |-> "moveDown", seq |-> 1 - args.seq]

\* The moveDown is handled.
Down ==
  /\ DownSent
  /\ \E piece \in (IF WillLock(1, "moveDown") THEN DownPieces ELSE {null}) :
       \E w \in {processAction(World, 1, "moveDown", piece, <<>>)} : Commit(w)
  /\ locks' = IF WillLock(1, "moveDown") THEN (1 :> 1) ELSE locks
  /\ UNCHANGED <<nextClientId, crashed, gameMsgs, result>>

NextDown ==
  \/ \E action \in GameMsgs : Steer(action)
  \/ Down

\* The player goes on sending and the server handles every message it is sent.
\* The handler is total and only Down changes args, so a step of NextDown is a
\* DownSent step exactly if it is a Down step, and Down is enabled exactly
\* where DownSent is: the condition is weak fairness of Down.
SpecDown == InitDown /\ [][NextDown]_vars /\ WF_args(DownSent)

\* ================================================================ claims
\* The piece of `state` lies inside the columns and above the floor and covers
\* no occupied cell of the board.
PieceFits(state) ==
  LET shape == state.currentPiece.shape IN
  \A row \in 0..(Len(shape) - 1) : \A col \in 0..(Len(shape[row + 1]) - 1) :
    Cell(shape, row, col) # 0 =>
      /\ state.currentX + col >= 0
      /\ state.currentX + col <= COLS - 1
      /\ state.currentY + row < ROWS
      /\ (state.currentY + row >= 0 =>
            state.board[state.currentY + row + 1][state.currentX + col + 1] = Empty)

SameGame(s, t) ==
  /\ s.board = t.board
  /\ s.currentPiece = t.currentPiece
  /\ s.currentX = t.currentX
  /\ s.currentY = t.currentY
  /\ s.score = t.score
  /\ s.linesCleared = t.linesCleared

\* C2: once a player's gameOver flag is true, no later event changes that
\* player's board, active piece, position, score or linesCleared.
C2_GameOverFreezes ==
  [][\A ws \in DOMAIN clients :
       (clients[ws].state.gameOver /\ ws \in DOMAIN clients')
         => SameGame(clients[ws].state, clients'[ws].state)]_vars

\* C3: no live room has a host or a guest whose close event has been handled.
C3_NoRoomOfClosed ==
  \A code \in DOMAIN gameRooms :
    /\ gameRooms[code].host \in DOMAIN clients
    /\ gameRooms[code].guest = null \/ gameRooms[code].guest \in DOMAIN clients

\* C4: every live room has a host and at most one guest, is playing exactly
\* when it has a guest, and has no guest while waiting.
C4_RoomShape ==
  \A code \in DOMAIN gameRooms :
    LET room == gameRooms[code] IN
    /\ room.host \in 1..(nextClientId - 1)
    /\ room.guest \in 0..(nextClientId - 1)
    /\ room.status = "playing" <=> room.guest # null
    /\ room.status = "waiting" => room.guest = null

\* C4 witness: a playing room with a guest beside a waiting room without one.
C4_PlayingBesideWaiting ==
  \E c1 \in DOMAIN gameRooms : \E c2 \in DOMAIN gameRooms :
    /\ gameRooms[c1].status = "playing" /\ gameRooms[c1].guest # null
    /\ gameRooms[c2].status = "waiting" /\ gameRooms[c2].guest = null

\* C5: a joinGame naming no live room is answered "Game not found", one naming
\* a room that is not waiting or has a guest is answered "Game is already full
\* or not in waiting state"; the reply is the only frame sent and the rooms,
\* the registry and every PlayerState stay as they were.
C5_JoinErrors ==
  [][\A ws \in 1..MaxConns : \A gameCode \in Codes :
       JoinGame(ws, gameCode) =>
         LET missing == gameCode \notin DOMAIN gameRooms
             full == /\ ~missing
                     /\ \/ gameRooms[gameCode].status # "waiting"
                        \/ gameRooms[gameCode].guest # null
         IN /\ missing =>
                 /\ out' = <<Frame(ws, "error", [message |-> "Game not found"])>>
                 /\ UNCHANGED <<gameRooms, clientToRoom, clients>>
            /\ full =>
                 /\ out' = <<Frame(ws, "error",
                                   [message |-> "Game is already full or not in waiting state"])>>
                 /\ UNCHANGED <<gameRooms, clientToRoom, clients>>]_vars

\* C5 witness: a join has just been refused by a room that is playing.
C5_FullRefused ==
  /\ Len(out) = 1 /\ out[1].type = "error"
  /\ out[1].body.message = "Game is already full or not in waiting state"
  /\ \E code \in DOMAIN gameRooms : gameRooms[code].status = "playing"

\* C6: a joinGame naming a waiting room with no guest sets the guest and the
\* status, registers the joiner and sends gameJoined to the joiner, playerJoined
\* to the host and then a gameStateUpdate to the host and to the guest.
C6_JoinPushesBoth ==
  [][\A ws \in 1..MaxConns : \A gameCode \in Codes :
       ( /\ JoinGame(ws, gameCode)
         /\ gameCode \in DOMAIN gameRooms
         /\ gameRooms[gameCode].status = "waiting"
         /\ gameRooms[gameCode].guest = null )
       => LET host == gameRooms[gameCode].host IN
          /\ gameCode \in DOMAIN gameRooms'
          /\ gameRooms'[gameCode].guest = ws
          /\ gameRooms'[gameCode].status = "playing"
          /\ ws \in DOMAIN clientToRoom' /\ clientToRoom'[ws] = gameCode
          /\ Len(out') = 4
          /\ out'[1].to = ws /\ out'[1].type = "gameJoined" /\ out'[1].body.isHost = FALSE
          /\ out'[2].to = host /\ out'[2].type = "playerJoined"
          /\ out'[3] = Frame(host, "gameStateUpdate", [state |-> clients[host].state])
          /\ out'[4] = Frame(ws, "gameStateUpdate", [state |-> clients[ws].state])]_vars

\* C7: each live connection is the host or guest of at most one live room.
C7_AtMostOneRoom ==
  \A ws \in DOMAIN clients :
    Cardinality({code \in DOMAIN gameRooms :
                   gameRooms[code].host = ws \/ gameRooms[code].guest = ws}) <= 1

\* C8: the host and the guest of a playing room are two distinct connections.
C8_TwoDistinct ==
  \A code \in DOMAIN gameRooms :
    gameRooms[code].status = "playing" => gameRooms[code].host # gameRooms[code].guest

\* C9: createGame adds one waiting room with the requester as host and no guest
\* under a code no live room has, leaves every existing room unchanged,
\* registers requester -> code and replies gameCreated to the requester only.
C9_CreateAddsRoom ==
  [][\A ws \in 1..MaxConns :
       CreateGame(ws) =>
         \E gameCode \in Codes \ DOMAIN gameRooms :
           /\ DOMAIN gameRooms' = DOMAIN gameRooms \cup {gameCode}
           /\ \A code \in DOMAIN gameRooms : gameRooms'[code] = gameRooms[code]
           /\ gameRooms'[gameCode].host = ws
           /\ gameRooms'[gameCode].guest = null
           /\ gameRooms'[gameCode].status = "waiting"
           /\ ws \in DOMAIN clientToRoom' /\ clientToRoom'[ws] = gameCode
           /\ \A c \in DOMAIN clientToRoom \ {ws} :
                c \in DOMAIN clientToRoom' /\ clientToRoom'[c] = clientToRoom[c]
           /\ Len(out') = 1
           /\ out'[1].to = ws /\ out'[1].type = "gameCreated"
           /\ out'[1].body.gameCode = gameCode /\ out'[1].body.isHost = TRUE]_vars

\* C9 witness: a room has just been created while another room is live.
C9_SecondRoomCreated ==
  /\ Len(out) = 1 /\ out[1].type = "gameCreated"
  /\ Cardinality(DOMAIN gameRooms) = 2
  /\ gameRooms[out[1].body.gameCode].host = out[1].to

FramesTo(frames, to, type) ==
  {i \in DOMAIN frames : frames[i].to = to /\ frames[i].type = type}

\* C11: when the host or the guest of a playing room closes, the other
\* participant is sent exactly one opponentDisconnected, with reason "Host left
\* the game" or "Guest left the game" by the role of the one who left, the room
\* is gone after the close, the other participant has no registry entry, and a
\* joinGame naming a code with no live room is answered "Game not found".
C11_CloseNotifiesOther ==
  [][/\ \A ws \in 1..MaxConns : \A code \in DOMAIN gameRooms :
          LET room == gameRooms[code]
              other == IF room.host = ws THEN room.guest ELSE room.host
          IN ( /\ Close(ws)
               /\ room.status = "playing"
               /\ room.host = ws \/ room.guest = ws
               /\ other # ws /\ other \in DOMAIN clients )
             => /\ Cardinality(FramesTo(out', other, "opponentDisconnected")) = 1
                /\ \A i \in FramesTo(out', other, "opponentDisconnected") :
                     out'[i].body.reason =
                       (IF room.host = ws THEN "Host left the game" ELSE "Guest left the game")
                /\ code \notin DOMAIN gameRooms'
                /\ other \notin DOMAIN clientToRoom'
     /\ \A ws \in 1..MaxConns : \A code \in Codes \ DOMAIN gameRooms :
          JoinGame(ws, code) => out' = <<Frame(ws, "error", [message |-> "Game not found"])>>
    ]_vars

\* C12: every registry entry connection -> code names a live room whose host or
\* guest is that connection.
C12_RegistryNamesOwnRoom ==
  \A ws \in DOMAIN clientToRoom :
    /\ clientToRoom[ws] \in DOMAIN gameRooms
    /\ \/ gameRooms[clientToRoom[ws]].host = ws
       \/ gameRooms[clientToRoom[ws]].guest = ws

\* C12 witness: two connections are registered to the playing room they share
\* while a second room is live.
C12_TwoEntriesOneRoom ==
  \E a \in DOMAIN clientToRoom : \E b \in DOMAIN clientToRoom :
    /\ a # b /\ clientToRoom[a] = clientToRoom[b]
    /\ gameRooms[clientToRoom[a]].status = "playing"
    /\ Cardinality(DOMAIN gameRooms) = 2

\* ws is the host or the guest of the playing room `code`.
PlaysIn(ws, code) ==
  /\ gameRooms[code].status = "playing"
  /\ gameRooms[code].host = ws \/ gameRooms[code].guest = ws

\* The other participant of the room `code` of ws.
OtherOf(ws, code) ==
  IF gameRooms[code].host = ws THEN gameRooms[code].guest ELSE gameRooms[code].host

\* The connections that share a playing room with ws.
OpponentsOf(ws) == {OtherOf(ws, code) : code \in {c \in DOMAIN gameRooms : PlaysIn(ws, c)}}

AtRow(state, y) == [state EXCEPT !.currentY = y]

\* The row at which the piece of `state` comes to rest when it falls.
RestY(state) ==
  CHOOSE y \in state.currentY..ROWS :
    /\ \A z \in (state.currentY + 1)..y : PieceFits(AtRow(state, z))
    /\ ~PieceFits(AtRow(state, y + 1))

\* The board of `state` with the cells of its piece filled in.
Stamped(state) ==
  LET shape == state.currentPiece.shape IN
  [r \in 1..ROWS |-> [c \in 1..COLS |->
     IF \E row \in 0..(Len(shape) - 1) : \E col \in 0..(Len(shape[row + 1]) - 1) :
          /\ shape[row + 1][col + 1] # 0
          /\ state.currentY + row = r - 1
          /\ state.currentX + col = c - 1
     THEN state.currentPiece.color
     ELSE state.board[r][c]]]

\* The rows of `board` without an empty cell.
FullRows(board) == {r \in 1..ROWS : \A c \in 1..COLS : board[r][c] # Empty}

\* A game message of ws that locks its piece: lock, dropPiece, or a moveDown
\* with the piece unable to go down one row or two.
Locks(ws, action) ==
  \/ action \in {"lock", "dropPiece"}
  \/ /\ action = "moveDown"
     /\ ~PieceFits(AtRow(clients[ws].state, clients[ws].state.currentY + 1))
     /\ ~PieceFits(AtRow(clients[ws].state, clients[ws].state.currentY + 2))

\* The number of rows the lock of that message completes.
RowsCompleted(ws, action) ==
  LET state == clients[ws].state IN
  Cardinality(FullRows(Stamped(IF action = "dropPiece"
                               THEN AtRow(state, RestY(state)) ELSE state)))

\* C14: addGarbage is sent only by a lock that completes n > 1 rows, and then
\* with lines = n - 1; a lock that completes exactly one row adds 1 to
\* linesCleared and 100 to the score, sends no addGarbage and leaves every
\* other board as it was.
C14_GarbageOnlyAboveOneRow ==
  [][\A ws \in 1..3 : \A action \in GameMsgs :
       LockGame(ws, action) =>
         LET n == IF Locks(ws, action) THEN RowsCompleted(ws, action) ELSE 0
             garbage == {i \in DOMAIN out' : out'[i].type = "addGarbage"}
         IN /\ \A i \in garbage :
                 /\ n > 1
                 /\ out'[i].body.lines = n - 1
                 /\ out'[i].body.fromPlayer = clients[ws].id
            /\ n = 1 =>
                 /\ clients'[ws].state.linesCleared = clients[ws].state.linesCleared + 1
                 /\ clients'[ws].state.score = clients[ws].state.score + 100
                 /\ garbage = {}
                 /\ \A c \in DOMAIN clients \ {ws} :
                      clients'[c].state.board = clients[c].state.board]_vars

\* C14 witness: connection 1 has just completed its first row, the bottom one,
\* with the I piece next to its opponent, whose board is still empty.
C14_OneRowNoGarbage ==
  /\ clients[1].state.linesCleared = 1
  /\ clients[1].state.board[ROWS][3] = TETROMINOES.I.color
  /\ \E i \in DOMAIN out : out[i].type = "opponentUpdate" /\ out[i].to = 2
  /\ clients[2].state.board = createEmptyBoard

\* The bottom two rows of `board` are garbage with exactly one empty cell each.
TwoGarbageRows(board) ==
  \A r \in {ROWS - 1, ROWS} :
    /\ \A c \in 1..COLS : board[r][c] \in {Empty, GARBAGE}
    /\ Cardinality({c \in 1..COLS : board[r][c] = Empty}) = 1

\* C15: when the host or the guest of a playing room locks a piece that
\* completes three rows, its linesCleared grows by 3 and its score by 500, and
\* the frames of that lock are, in this order: addGarbage with lines = 2 to the
\* opponent, a gameStateUpdate to the opponent whose board has two garbage rows
\* at the bottom with one empty cell each, the locker's own gameStateUpdate,
\* and the opponentUpdate to the opponent.
C15_ThreeRowsSendTwo ==
  [][\A ws \in 1..3 : \A action \in GameMsgs : \A code \in DOMAIN gameRooms :
       ( /\ LockGame(ws, action)
         /\ Locks(ws, action)
         /\ RowsCompleted(ws, action) = 3
         /\ PlaysIn(ws, code)
         /\ OtherOf(ws, code) \in DOMAIN clients )
       => LET other == OtherOf(ws, code)
              last == Len(out')
          IN /\ clients'[ws].state.linesCleared = clients[ws].state.linesCleared + 3
             /\ clients'[ws].state.score = clients[ws].state.score + 500
             /\ last >= 4
             /\ out'[last - 3].to = other /\ out'[last - 3].type = "addGarbage"
             /\ out'[last - 3].body.lines = 2
             /\ out'[last - 2].to = other /\ out'[last - 2].type = "gameStateUpdate"
             /\ TwoGarbageRows(out'[last - 2].body.state.board)
             /\ out'[last - 1].to = ws /\ out'[last - 1].type = "gameStateUpdate"
             /\ out'[last].to = other /\ out'[last].type = "opponentUpdate"]_vars

\* The points for n rows.
Points(n) ==
  CASE n = 0 -> 0
    [] n = 1 -> 100
    [] n = 2 -> 300
    [] n = 3 -> 500
    [] n = 4 -> 800
    [] OTHER -> n * 100

\* C16: a game message that locks a piece and completes n rows adds n to the
\* sender's linesCleared and Points(n) to its score, the table the lock uses is
\* Points for every positive n, and score and linesCleared of every connection
\* change in no other way.
C16_ScoreTable ==
  [][\A ws \in 1..3 : \A action \in GameMsgs :
       LockGame(ws, action) =>
         LET n == IF Locks(ws, action) THEN RowsCompleted(ws, action) ELSE 0 IN
         /\ clients'[ws].state.linesCleared = clients[ws].state.linesCleared + n
         /\ clients'[ws].state.score = clients[ws].state.score + Points(n)
         /\ \A c \in DOMAIN clients \ {ws} :
              /\ clients'[c].state.linesCleared = clients[c].state.linesCleared
              /\ clients'[c].state.score = clients[c].state.score
         /\ \A k \in 1..MaxCleared : scoreValues(k) = Points(k)]_vars

\* C16 witness: connection 1 has completed four rows at once.
C16_FourRows ==
  /\ clients[1].state.linesCleared = 4
  /\ clients[1].state.score = 800

\* The game messages that are not a request to lock.
Moves == {"moveLeft", "moveRight", "moveDown", "rotate"}

\* C17: a moveDown whose target, one row lower, is not a valid placement leaves
\* the sender's board, piece, position, score and linesCleared unchanged, and
\* no moveLeft, moveRight, moveDown or rotate writes a piece to the board.
C17_RejectedDownKeepsPiece ==
  [][\A ws \in {1, 2} : \A action \in Moves :
       MatchGame(ws, action) =>
         /\ clients'[ws].state.board = clients[ws].state.board
         /\ ( /\ action = "moveDown"
              /\ ~PieceFits(AtRow(clients[ws].state, clients[ws].state.currentY + 1)) )
            => SameGame(clients[ws].state, clients'[ws].state)]_vars

\* What broadcastOpponentState shows the opponent of a player's state.
ReducedView(state) ==
  [board |-> state.board, score |-> state.score,
   linesCleared |-> state.linesCleared, gameOver |-> state.gameOver]

\* C18: when a game message of the host or guest of a playing room changes the
\* sender's state, the new state is sent to the sender as gameStateUpdate and
\* its reduced view (board, score, linesCleared, gameOver) to the opponent as
\* opponentUpdate while that message is handled.
C18_EveryChangeRelayed ==
  [][\A ws \in {1, 2} : \A action \in GameMsgs : \A code \in DOMAIN gameRooms :
       ( /\ MatchGame(ws, action)
         /\ PlaysIn(ws, code)
         /\ clients'[ws].state # clients[ws].state )
       => /\ \E i \in DOMAIN out' :
               out'[i] = Frame(ws, "gameStateUpdate", [state |-> clients'[ws].state])
          /\ \E i \in DOMAIN out' :
               /\ out'[i].to = OtherOf(ws, code)
               /\ out'[i].type = "opponentUpdate"
               /\ ReducedView(out'[i].body) = ReducedView(clients'[ws].state)]_vars

\* C19: isValidMove(state, x, y, shape) is true exactly when every occupied
\* cell (row, col) of the shape has 0 <= x + col < COLS and y + row < ROWS and,
\* when y + row >= 0, an empty board cell under it; so it is false whenever an
\* occupied cell is outside the columns or at or below row ROWS, whatever the
\* board holds, and cells above the board are not looked up.
C19_IsValidMoveExact ==
  (args # <<>> /\ args.fn = "isValidMove" /\ args.times = 1) =>
    LET shape == args.shape
        cells == {<<row, col>> \in (0..(Len(shape) - 1)) \X (0..(Len(shape[1]) - 1)) :
                    shape[row + 1][col + 1] # 0}
        inside(cell) == /\ 0 <= args.newX + cell[2] /\ args.newX + cell[2] < COLS
                        /\ args.newY + cell[1] < ROWS
        free(cell) == args.newY + cell[1] >= 0 =>
                        args.state.board[args.newY + cell[1] + 1][args.newX + cell[2] + 1] = Empty
    IN /\ result.value = (\A cell \in cells : inside(cell) /\ free(cell))
       /\ (\E cell \in cells : ~inside(cell)) => result.value = FALSE

\* C19 witness: a placement found valid although one of its occupied cells is
\* above the board, in the column of the board's one occupied cell.
C19_ValidAboveBoard ==
  /\ args # <<>> /\ args.fn = "isValidMove" /\ args.times = 1
  /\ result.value = TRUE
  /\ \E row \in 0..(Len(args.shape) - 1) : \E col \in 0..(Len(args.shape[1]) - 1) :
       /\ args.shape[row + 1][col + 1] # 0
       /\ args.newY + row < 0
       /\ args.newX + col >= 0 /\ args.newX + col < COLS
       /\ \E r \in 1..ROWS : args.state.board[r][args.newX + col + 1] # Empty

\* C20: rotatePiece turns an R x C shape into the C x R shape with
\* rotated[c][R-1-r] = shape[r][c] and keeps the color; four applications give
\* a catalog piece its shape back, and one leaves the O piece as it is.
C20_RotateQuarterTurn ==
  (args # <<>> /\ args.fn = "rotatePiece" /\ args.times >= 1) =>
    LET shape == args.piece.shape
        R == Len(shape)
        C == Len(shape[1])
        rotated == result.value.shape
    IN /\ Len(rotated) = C
       /\ \A c \in 0..(C - 1) :
            /\ Len(rotated[c + 1]) = R
            /\ \A r \in 0..(R - 1) : rotated[c + 1][(R - 1 - r) + 1] = shape[r + 1][c + 1]
       /\ result.value.color = args.piece.color
       /\ (args.times = 4 /\ args.first \in CatalogPieces) => rotated = args.first.shape
       /\ (args.times = 1 /\ args.first = TETROMINOES.O) => rotated = args.first.shape

\* C20 witness: the L piece after its fourth rotation, the third one having
\* left it in another orientation.
C20_FourthTurnOfL ==
  /\ args # <<>> /\ args.fn = "rotatePiece" /\ args.times = 4
  /\ args.first = TETROMINOES.L
  /\ args.piece.shape # args.first.shape
  /\ result.value.shape = args.first.shape

\* The shape a quarter turn clockwise makes of `shape`.
Turned(shape) ==
  [c \in 1..Len(shape[1]) |-> [j \in 1..Len(shape) |-> shape[Len(shape) + 1 - j][c]]]

\* What the message asks the piece of `state` to become.
Target(state, action) ==
  CASE action = "moveLeft" -> [state EXCEPT !.currentX = @ - 1]
    [] action = "moveRight" -> [state EXCEPT !.currentX = @ + 1]
    [] action = "moveDown" -> [state EXCEPT !.currentY = @ + 1]
    [] action = "rotate" -> [state EXCEPT !.currentPiece.shape = Turned(@)]

\* C21: a moveLeft, moveRight or rotate whose target placement is not valid
\* leaves every connection's state as it was and sends nothing; an accepted
\* moveLeft or moveRight changes currentX by one and nothing else, an accepted
\* rotate only the shape of the piece.
C21_SidewaysAndRotate ==
  [][\A action \in {"moveLeft", "moveRight", "rotate"} :
       MoveGame(1, action) =>
         LET target == Target(clients[1].state, action) IN
         IF PieceFits(target)
         THEN clients' = [clients EXCEPT ![1].state = target]
         ELSE clients' = clients /\ out' = <<>>]_vars

\* C21 witness: a message has just been rejected with the piece where it can go
\* left, right and down: the message was a rotate.
C21_RotateRejected ==
  /\ gameMsgs >= 1 /\ out = <<>> /\ clients # <<>> /\ gameRooms # <<>>
  /\ ~clients[1].state.gameOver
  /\ ~PieceFits(Target(clients[1].state, "rotate"))
  /\ PieceFits(Target(clients[1].state, "moveLeft"))
  /\ PieceFits(Target(clients[1].state, "moveRight"))
  /\ PieceFits(Target(clients[1].state, "moveDown"))

\* C22: checkForCompletedLines applied to the board a first call has left
\* returns 0 and leaves that board as it is.
C22_SecondClearIsNoOp ==
  (args # <<>> /\ args.fn = "checkForCompletedLines" /\ args.times = 2) =>
    /\ result.linesCleared = 0
    /\ result.board = args.board

\* C22 witness: the second call has run on a board from which the first call
\* removed two adjacent rows.
C22_SecondCallAfterTwoRows ==
  /\ args # <<>> /\ args.fn = "checkForCompletedLines" /\ args.times = 2
  /\ \E r \in 1..(ROWS - 1) : FullRows(args.first) = {r, r + 1}
  /\ args.board # args.first

\* The row has an empty cell.
Incomplete(row) == \E c \in 1..COLS : row[c] = Empty

\* C23: checkForCompletedLines returns the number k of rows without an empty
\* cell and leaves k empty rows on top of the incomplete rows of its input, in
\* their order, also when complete rows are adjacent.
C23_ClearCompacts ==
  (args # <<>> /\ args.fn = "checkForCompletedLines" /\ args.times >= 1) =>
    LET k == Cardinality(FullRows(args.board)) IN
    /\ result.linesCleared = k
    /\ result.board = [i \in 1..k |-> [c \in 1..COLS |-> Empty]]
                        \o SelectSeq(args.board, Incomplete)

\* C23 witness: three adjacent complete rows were removed from under a row
\* that was not complete.
C23_ThreeAdjacentRows ==
  /\ args # <<>> /\ args.fn = "checkForCompletedLines" /\ args.times = 1
  /\ FullRows(args.board) = {ROWS - 2, ROWS - 1, ROWS}
  /\ args.board[ROWS - 3] # [c \in 1..COLS |-> Empty]
  /\ result.linesCleared = 3
  /\ result.board[ROWS] = args.board[ROWS - 3]

\* `board` with its complete rows taken out and as many empty rows put on top.
Compacted(board) ==
  [i \in 1..Cardinality(FullRows(board)) |-> [c \in 1..COLS |-> Empty]]
    \o SelectSeq(board, Incomplete)

\* The state in which the lock of that message finds the piece.
Landed(ws, action) ==
  IF action = "dropPiece"
  THEN AtRow(clients[ws].state, RestY(clients[ws].state))
  ELSE clients[ws].state

\* C24: a lock leaves the board with the piece's color in the cells the piece
\* occupied and the completed rows cleared, a catalog piece as the active piece
\* at currentX = floor(COLS/2) - floor(width/2), currentY = 0, and gameOver set
\* exactly when that placement is not valid on that board.
C24_LockWritesClearsSpawns ==
  [][\A ws \in 1..3 : \A action \in GameMsgs :
       (LockGame(ws, action) /\ Locks(ws, action)) =>
         LET before == Landed(ws, action)
             after == clients'[ws].state
         IN /\ after.board = Compacted(Stamped(before))
            /\ after.currentPiece \in CatalogPieces
            /\ after.currentX = (COLS \div 2) - (Len(after.currentPiece.shape[1]) \div 2)
            /\ after.currentY = 0
            /\ after.gameOver = (before.gameOver \/ ~PieceFits(after))]_vars

\* The garbage rows among the rows of `board`: rows of garbage cells and gaps only.
IsGarbageRow(row) ==
  /\ \A c \in 1..COLS : row[c] \in {Empty, GARBAGE}
  /\ \E c \in 1..COLS : row[c] = GARBAGE

Called == args.fn = "addGarbageLines" /\ args.times = 1

\* The number of rows that addGarbageLines is to insert for a request of n.
Inserted(n) == IF n <= 0 THEN 0 ELSE IF n > ROWS - 4 THEN ROWS - 4 ELSE n

\* C25: addGarbageLines(state, n) inserts exactly min(n, ROWS-4) garbage rows
\* and nothing for n <= 0: the rows above the inserted ones are rows of the old
\* board, the inserted rows are the only new ones, and the top 4 rows of the
\* board are never rows of garbage put there by the insertion.
C25_InsertsAtMostRowsLess4 ==
  Called =>
    LET old == args.state.board
        new == result.value.board
        k == Inserted(args.numLines)
    IN /\ args.numLines <= 0 => result.value = args.state
       /\ k <= ROWS - 4
       /\ Len(new) = ROWS
       /\ SubSeq(new, 1, ROWS - k) = SubSeq(old, k + 1, ROWS)
       /\ \A r \in (ROWS - k + 1)..ROWS : IsGarbageRow(new[r])
       /\ \A r \in 1..4 : new[r] \in {old[j] : j \in 1..ROWS}

\* More rows were requested than ROWS-4 and only ROWS-4 were inserted under a
\* board whose row 4 (counted from 0) was occupied.
C25_RequestAboveCap ==
  /\ Called
  /\ args.numLines > ROWS - 4
  /\ \E c \in 1..COLS : args.state.board[5][c] # Empty
  /\ result.value.board[5 - (ROWS - 4)] = args.state.board[5]
  /\ IsGarbageRow(result.value.board[ROWS])

\* C26: after addGarbageLines inserts k rows, row r < ROWS-k of the new board
\* is row r+k of the old board, and each of the bottom k rows holds the garbage
\* color in exactly COLS-1 cells and is empty in exactly one cell, the column
\* drawn for that row, whatever the columns drawn for the other rows.
C26_ShiftUpAndGapPerRow ==
  Called =>
    LET old == args.state.board
        new == result.value.board
        k == Inserted(args.numLines)
    IN /\ \A r \in 0..(ROWS - k - 1) : new[r + 1] = old[r + k + 1]
       /\ \A i \in 0..(k - 1) :
            LET row == new[ROWS - i]
            IN /\ Cardinality({c \in 1..COLS : row[c] = GARBAGE}) = COLS - 1
               /\ Cardinality({c \in 1..COLS : row[c] = Empty}) = 1
               /\ row[args.gaps[i] + 1] = Empty

\* Two rows were inserted with their gaps in different columns.
C26_TwoRowsTwoGaps ==
  /\ Called
  /\ Inserted(args.numLines) = 2
  /\ args.gaps[0] # args.gaps[1]
  /\ result.value.board[ROWS][args.gaps[0] + 1] = Empty
  /\ result.value.board[ROWS - 1][args.gaps[1] + 1] = Empty
  /\ result.value.board[ROWS - 1][args.gaps[0] + 1] = GARBAGE

\* The rows below the old currentY, from 0, at which the piece of `state` fits.
FreeAbove(state) == {y \in 0..(state.currentY - 1) : PieceFits(AtRow(state, y))}

Highest(S) == CHOOSE y \in S : \A z \in S : z <= y

\* C27: after a garbage insertion the piece is as it was if it still fits at
\* (currentX, currentY); otherwise currentY becomes the largest y below the old
\* currentY and >= 0 at which the piece fits at the same currentX and shape;
\* if there is none, gameOver is set and currentY stays; currentX and the
\* shape never change.
C27_PieceProbedUpward ==
  Called =>
    LET lifted == [args.state EXCEPT !.board = result.value.board]
        after == result.value
    IN /\ after.currentX = args.state.currentX
       /\ after.currentPiece = args.state.currentPiece
       /\ IF Inserted(args.numLines) = 0 \/ PieceFits(lifted) THEN after = lifted
          ELSE IF FreeAbove(lifted) # {}
               THEN after = AtRow(lifted, Highest(FreeAbove(lifted)))
               ELSE after = [lifted EXCEPT !.gameOver = TRUE]

\* Two garbage rows lifted a piece by two rows: one row above it was not free.
C27_LiftedTwoRows ==
  /\ Called
  /\ ~args.state.gameOver
  /\ ~result.value.gameOver
  /\ result.value.currentY = args.state.currentY - 2

\* moveDown messages of ws handled one after another, up to and including the
\* first one whose target row is rejected.
RECURSIVE DownUntilRejected(_, _, _, _)
DownUntilRejected(w, ws, piece, gaps) ==
  LET state == w.clients[ws].state
      handled == processMove(w, ws, "down", piece, gaps)
  IN IF isValidMove(state, state.currentX, state.currentY + 1, state.currentPiece.shape)
     THEN DownUntilRejected(handled, ws, piece, gaps)
     ELSE handled

NoGaps == [i \in 0..ROWS |-> 0]

\* C28: a dropPiece leaves the player's state as the moveDown messages up to
\* the first rejected one followed by one lock message leave it: the same
\* board, piece, position, score, linesCleared and gameOver.
C28_DropIsDownsThenLock ==
  [][MoveGame(1, "dropPiece") =>
       \E piece \in getRandomPiece : \E next \in getRandomPiece :
         LET downs == DownUntilRejected(World, 1, piece, NoGaps)
             after == processLock(downs, 1, next, NoGaps).clients[1].state
         IN /\ SameGame(clients'[1].state, after)
            /\ clients'[1].state.gameOver = after.gameOver]_vars

\* C29: a frame that does not parse, or whose type or action is unknown,
\* changes no player's state, no room and no registry entry, sends nothing,
\* and leaves the sender registered and the server handling its messages.
C29_BadFrameIgnored ==
  [][\A ws \in Handles :
       Ignored(ws) =>
         /\ clients' = clients
         /\ gameRooms' = gameRooms
         /\ clientToRoom' = clientToRoom
         /\ out' = <<>>
         /\ MapHas(clients', ws)
         /\ ~crashed']_vars

\* Nothing was sent by the last frame handled, in a state where every
\* connection is open, a room is playing and no game message was handled yet.
C29_SilentWhilePlaying ==
  /\ out = <<>>
  /\ ~crashed
  /\ gameMsgs = 0
  /\ DOMAIN clients = 1..MaxConns
  /\ \E code \in DOMAIN gameRooms : gameRooms[code].status = "playing"

\* C30: when the sends to the opponent throw while a lock is handled, the
\* locker's own change is kept in full: the piece is written, the completed
\* rows are cleared, score and linesCleared are updated, the next piece is
\* spawned and pushed to the locker; the exception goes no further and nothing
\* is sent to the opponent, at the first attempt or at a later one.
C30_FailedPeerSendKeepsLock ==
  [][\A ws \in 1..3 : \A action \in GameMsgs :
       LockGamePeerDown(ws, action) =>
         LET before == Landed(ws, action)
             after == clients'[ws].state
             n == Cardinality(FullRows(Stamped(before)))
             peer == OpponentOf(World, ws)
         IN /\ after.board = Compacted(Stamped(before))
            /\ after.linesCleared = before.linesCleared + n
            /\ after.score = before.score + Points(n)
            /\ after.currentPiece \in CatalogPieces
            /\ after.currentX = SpawnX(after.currentPiece)
            /\ after.currentY = 0
            /\ out' # <<>>
            /\ out'[Len(out')] = Frame(ws, "gameStateUpdate", [state |-> after])
            /\ \A i \in DOMAIN out' : out'[i].to # peer
            /\ ~crashed']_vars

\* Connection 1 completed two rows or more with one lock, its opponent is
\* registered and was sent nothing, and no garbage is on the opponent's board.
C30_DoubleWithNoGarbage ==
  \E peer \in DOMAIN clients \ {1} :
    /\ OpponentOf(World, 1) = peer
    /\ clients[1].state.score \in {300, 500, 800}
    /\ out # <<>>
    /\ \A i \in DOMAIN out : out[i].to = 1
    /\ \A r \in 1..ROWS : \A c \in 1..COLS : clients[peer].state.board[r][c] # GARBAGE

\* C31: the close of a connection removes its PlayerState, its registry entry
\* and its room, also when the opponentDisconnected notification cannot be
\* sent; every other connection and every other room is as before and the
\* server keeps running.
C31_CloseTearsDown ==
  [][\A ws \in Handles :
       Close(ws) =>
         /\ ws \notin DOMAIN clients'
         /\ ws \notin DOMAIN clientToRoom'
         /\ ws \in DOMAIN clientToRoom => clientToRoom[ws] \notin DOMAIN gameRooms'
         /\ \A c \in DOMAIN clients \ {ws} : c \in DOMAIN clients' /\ clients'[c] = clients[c]
         /\ \A code \in DOMAIN gameRooms :
              (ws \notin DOMAIN clientToRoom \/ code # clientToRoom[ws]) =>
                code \in DOMAIN gameRooms' /\ gameRooms'[code] = gameRooms[code]
         /\ ~crashed']_vars

\* C32: every live connection has one PlayerState, carrying the id of the
\* connection, and the ids of the connections that are live together are
\* pairwise distinct.
C32_LiveIdsDistinct ==
  /\ \A ws \in DOMAIN clients : clients[ws].state.id = clients[ws].id
  /\ \A a \in DOMAIN clients : \A b \in DOMAIN clients :
       a # b => clients[a].id # clients[b].id

\* C33: with no room created or joined, a lock message of one connection
\* makes every other connection receive an opponentUpdate with the locker's
\* board, score, linesCleared and gameOver.
C33_LockRelayedWithoutRoom ==
  [][\A ws \in 1..3 :
       (LockGame(ws, "lock") /\ gameRooms = <<>> /\ clientToRoom = <<>>) =>
         \A other \in DOMAIN clients \ {ws} :
           \E i \in FramesTo(out', other, "opponentUpdate") :
             out'[i].body = [playerId |-> clients[ws].id] @@ ReducedView(clients'[ws].state)]_vars

\* The board `new` is `old` with k garbage rows pushed in from below.
Pushed(old, new, k) ==
  /\ SubSeq(new, 1, ROWS - k) = SubSeq(old, k + 1, ROWS)
  /\ \A r \in (ROWS - k + 1)..ROWS : IsGarbageRow(new[r])

StatusRank(status) ==
  CASE status = "waiting" -> 0 [] status = "playing" -> 1 [] status = "ended" -> 2

\* C35: over every step, a room that is there before and after (the code of a
\* live room is never handed out again, so it is the same room) has a status
\* on the path that is not behind the one it had, a playing room keeps its
\* host and its guest, and a joinGame naming a room that is playing or ended
\* is answered with the error and changes no room and no registry entry.
C35_StatusOnlyForward ==
  [][/\ \A code \in DOMAIN gameRooms \cap DOMAIN gameRooms' :
          LET room == gameRooms[code]
              after == gameRooms'[code]
          IN /\ after.status \in {"waiting", "playing", "ended"}
             /\ StatusRank(room.status) <= StatusRank(after.status)
             /\ room.status # "waiting" =>
                  /\ after.host = room.host /\ after.hostId = room.hostId
                  /\ after.guest = room.guest /\ after.guestId = room.guestId
     /\ \A ws \in 1..MaxConns : \A gameCode \in Codes :
          (/\ gameCode \in DOMAIN gameRooms
           /\ gameRooms[gameCode].status \in {"playing", "ended"}
           /\ JoinGame(ws, gameCode)) =>
            /\ UNCHANGED <<gameRooms, clientToRoom>>
            /\ out' = <<Frame(ws, "error",
                              [message |-> "Game is already full or not in waiting state"])>>]_vars

\* A room with two different players is playing and has just refused the join
\* of one of its own players.
C35_PlayingRoomRefusedOwnPlayer ==
  \E code \in DOMAIN gameRooms :
    /\ gameRooms[code].status = "playing"
    /\ gameRooms[code].host # gameRooms[code].guest
    /\ Len(out) = 1 /\ out[1].type = "error"
    /\ out[1].to \in {gameRooms[code].host, gameRooms[code].guest}

\* Every row of every board has an empty cell.
NoFullRow ==
  \A ws \in DOMAIN clients : \A row \in 0..(ROWS - 1) :
    ~isRowComplete(clients[ws].state.board, row)

\* C36: in every state between two handler turns every row of every player's
\* board has at least one empty cell, and no step adds more than 4 to a
\* player's linesCleared: no lock removes more than 4 rows.
C36_NoFullRowAtRest ==
  /\ []NoFullRow
  /\ [][\A ws \in DOMAIN clients \cap DOMAIN clients' :
         clients'[ws].state.linesCleared <= clients[ws].state.linesCleared + 4]_vars

\* Connection 1 has locked the I piece into four rows of garbage, all four were
\* removed, and its opponent's board got garbage rows with a gap for them.
C36_FourRemovedGarbageSent ==
  /\ clients[1].state.linesCleared = 4
  /\ \A row \in 0..(ROWS - 1) : \A x \in 0..(COLS - 1) :
       At(clients[1].state.board, row, x) = Empty
  /\ \E c \in DOMAIN clients \ {1} : IsGarbageRow(clients[c].state.board[ROWS])

\* C37: in every state every player's currentY is a row of the board,
\* 0 <= currentY < ROWS, so every cell of the active piece is at a row >= 0 and
\* the lock never meets a cell above the board.
C37_OriginOnBoard ==
  \A ws \in DOMAIN clients :
    LET state == clients[ws].state IN
    /\ 0 <= state.currentY /\ state.currentY < ROWS
    /\ \A r \in 1..Len(state.currentPiece.shape) : state.currentY + (r - 1) >= 0

\* The host has locked twice and sent garbage; the guest, who has not locked,
\* has a garbage row under its piece, which rests on the stack below row 0.
C37_GuestPieceOnGarbage ==
  /\ locks[1] = 2 /\ locks[2] = 0
  /\ gameRooms[1].guest = 2
  /\ IsGarbageRow(clients[2].state.board[ROWS])
  /\ ~clients[2].state.gameOver
  /\ clients[2].state.currentY > 0
  /\ ~isValidMove(clients[2].state, clients[2].state.currentX,
                  clients[2].state.currentY + 1, clients[2].state.currentPiece.shape)

\* C38: a player whose game is not over and that sends moveDown and nothing
\* else, in no room and so receiving no garbage, has after finitely many
\* messages its piece locked and a new one spawned, or its game over.
C38_DownsEventuallyLock ==
  [](args.only = "moveDown" => <>(locks[1] > 0 \/ clients[1].state.gameOver))

\* C39: a game message that locks a piece and completes more than one row
\* applies no garbage to the locker: the locker is sent no addGarbage and its
\* board after the lock is the board with the piece written and the complete
\* rows removed, no garbage row pushed in.
C39_NoGarbageToLocker ==
  [][\A ws \in 1..3 : \A action \in GameMsgs :
       (LockGame(ws, action) /\ Locks(ws, action) /\ RowsCompleted(ws, action) > 1) =>
         /\ FramesTo(out', ws, "addGarbage") = {}
         /\ clients'[ws].state.board = Compacted(Stamped(Landed(ws, action)))]_vars

\* A PlayerState as a match expects it: nothing on the board, nothing scored.
Fresh(state) ==
  /\ state.board = createEmptyBoard
  /\ state.score = 0
  /\ state.linesCleared = 0
  /\ ~state.gameOver

\* C40: when a joinGame takes a room from waiting to playing, the PlayerState
\* of its host and of its guest has an empty board, score 0, linesCleared 0 and
\* gameOver false.  Rooms joined by their own host are left aside.
C40_MatchStartsFresh ==
  [][\A ws \in 1..MaxConns : \A gameCode \in Codes :
       (/\ gameCode \in DOMAIN gameRooms /\ gameCode \in DOMAIN gameRooms'
        /\ gameRooms[gameCode].status = "waiting"
        /\ gameRooms'[gameCode].status = "playing"
        /\ gameRooms'[gameCode].host # gameRooms'[gameCode].guest
        /\ JoinGame(ws, gameCode)) =>
         \A p \in {gameRooms'[gameCode].host, gameRooms'[gameCode].guest} \cap DOMAIN clients' :
           Fresh(clients'[p].state)]_vars
====
